---------------------------- MODULE Spec2Model ----------------------------
(***************************************************************************)
(* Payment reconciliation of the campus backend: the Paystack routes       *)
(* (initiate-payment, verify-payment/:reference, webhook), the Payment     *)
(* collection and the payment fields of the Student collection.            *)
(*                                                                         *)
(* The repository holds two revisions of the Paystack route file:          *)
(*   src/Routes/PaymentRoute.js   (rev = "PaymentRoute")                   *)
(*   src/unnamed/part_004         (rev = "part_004")                       *)
(* A deployment runs one of them; rev is fixed by Init.                    *)
(*                                                                         *)
(* A handler is split at its awaits: every action is one awaited operation  *)
(* (a store operation or a gateway call) together with the synchronous     *)
(* code that leads to it and follows it up to the next await, so that      *)
(* concurrent requests interleave exactly where Node lets them. A request  *)
(* arrives in the step of its first awaited operation.                     *)
(*                                                                         *)
(* Spec is the Paystack integration under any mix of requests. SpecPair,   *)
(* SpecWire, SpecAmount, SpecStripe and SpecRetry run the same handlers on *)
(* chosen inputs: a verify call beside a webhook, one delivery with its    *)
(* raw bytes, fractional amounts, the Stripe routes (src/unnamed/part_003, *)
(* src/Routes/StudentsGetRoutes.js) beside the Paystack ones, and a        *)
(* delivery repeated until it is acknowledged.                             *)
(***************************************************************************)
EXTENDS Integers, Sequences, FiniteSets, TLC

\* ------------------------------------------------------------------ bounds
MaxRefs == 2          \* provider references in play
NumStudents == 2      \* registered students
MaxInflight == 2      \* requests being handled at the same time
MaxRequests == 4      \* requests received in one run
MaxOutage == 2        \* requests received before the store of a retry run is healthy

Refs == 1..MaxRefs
Students == 1..NumStudents
Slots == 1..MaxInflight

\* ------------------------------------------------------- program constants
NullId == 0           \* JavaScript null where a Payment _id was expected
NoPaidAt == 0         \* paidAt absent on the document
NoResponse == 0       \* the request was never answered (unhandled rejection)
UnknownStudent == 0   \* a well-formed ObjectId that names no Student

Revs == {"PaymentRoute", "part_004"}
Terms == { [semester |-> "Fall", academicYear |-> "2025/2026"],
           [semester |-> "Spring", academicYear |-> "2026/2027"] }
NoTerm == [semester |-> "null", academicYear |-> "null"]
Fall == [semester |-> "Fall", academicYear |-> "2025/2026"]

\* who asks initiate-payment for which term: student 1 for both terms, every
\* other student for Fall, and an id that names no student
Requests ==
    {[studentId |-> sid, term |-> t] :
        sid \in Students \cup {UnknownStudent}, t \in Terms}
    \ {q \in [studentId : Students \cup {UnknownStudent}, term : Terms] :
          q.studentId # 1 /\ q.term # Fall}

\* req.body.amount is Naira with up to three decimals, held as thousandths
Milli == 1000
\* the request amounts initiate-payment is tried with
Amounts == {-1 * Milli, 0, 5000 * Milli}

\* amount * 100 is a product of IEEE doubles (53 bits, round to nearest even).
\* Binade(n, d) is the exponent of n/d: 2^Binade <= n/d < 2^(Binade + 1).
RECURSIVE Binade(_, _)
Binade(n, d) ==
    IF n >= 2 * d THEN 1 + Binade(n, 2 * d)
    ELSE IF n < d THEN Binade(2 * n, d) - 1
    ELSE 0

\* 2^s modulo 2 * Milli
RECURSIVE Pow2Mod(_)
Pow2Mod(s) == IF s = 0 THEN 1 ELSE (2 * Pow2Mod(s - 1)) % (2 * Milli)

\* The double nearest to amount/Milli is m / 2^s with s = 52 - Binade and
\* m = amount * 2^s / Milli rounded; R is amount * 2^s modulo 2 * Milli, so
\* R % Milli is what the rounding drops and R < Milli says the quotient is even.
\* When the exact product ends in half a kobo and the double of the amount
\* lies more than 320/Milli of its last bit below the amount, the double
\* product, whose last bit is 64 times as large, is the double just below the
\* half: 1.005 * 100 = 100.49999999999999.
ShortOfHalf(amount) ==
    /\ amount > 0
    /\ amount % 10 = 5
    /\ Binade(amount, 10) - Binade(amount, Milli) = 6
    /\ LET R == ((amount % (2 * Milli)) * Pow2Mod(52 - Binade(amount, Milli)))
                   % (2 * Milli)
           dropped == R % Milli
       IN \/ 320 < dropped /\ dropped < Milli \div 2
          \/ dropped = Milli \div 2 /\ R < Milli

\* const amountInKobo = Math.round(amount * 100): the integer nearest to the
\* double product, a half going up
AmountInKobo(amount) ==
    IF ShortOfHalf(amount)
      THEN (amount * 100) \div Milli
      ELSE (amount * 100 + Milli \div 2) \div Milli

\* the amount of a charge created outside initiate-payment
FeeKobo == AmountInKobo(5000 * Milli)

\* PAYSTACK_SECRET_KEY, and a key the provider does not hold
Secret == "PAYSTACK_SECRET_KEY"
Keys == {Secret, "other key"}
EventTypes == {"charge.success", "charge.failed", "transfer.success"}
GatewayAnswers == {"success", "abandoned", "failed", "unavailable"}

VARIABLES
    rev,         \* which revision of the route file is deployed
    payments,    \* the Payment collection: a set of documents
    students,    \* the payment fields of the Student collection, by _id
    charges,     \* the provider's side: the charge behind each reference
    reqs,        \* requests in flight, one per slot
    resp,        \* the response most recently sent: which route, which status code
    arrived,     \* how many requests have been received
    firstStatus, \* history: the status the first writing trigger stored, per reference
    run,         \* history of a paired run: what it began with, the triggers begun
    wire,        \* history of a signature run: the delivery sent, whether it was handled
    stripe       \* the Stripe integration: its revision, its intents and Payment documents

vars == <<rev, payments, students, charges, reqs, resp, arrived, firstStatus, run,
          wire, stripe>>

\* ------------------------------------------------------------ the provider
\* What Paystack holds for a reference; it is fixed when the charge is created
\* and every verify answer and webhook event for the reference carries it.
NoCharge == [exists |-> FALSE, student_id |-> UnknownStudent, term |-> NoTerm,
             amount |-> 0, metadata |-> FALSE, description |-> FALSE]

\* the charge transaction/initialize creates from initiate-payment's request body
AppCharge(sid, term, kobo) ==
    [exists |-> TRUE, student_id |-> sid, term |-> term, amount |-> kobo,
     metadata |-> TRUE, description |-> TRUE]

\* charges made on the same Paystack account by other means: their metadata is
\* whatever the other party sent (none at all, or no description)
ForeignCharges ==
    {[exists |-> TRUE, student_id |-> UnknownStudent, term |-> NoTerm,
      amount |-> FeeKobo, metadata |-> FALSE, description |-> FALSE]}
    \cup {[exists |-> TRUE, student_id |-> q.studentId, term |-> q.term,
           amount |-> FeeKobo, metadata |-> TRUE, description |-> FALSE] :
           q \in {q \in Requests : q.studentId = 1 /\ q.term.semester = "Fall"}}

\* the provider issues references in turn
NextReference(C) == CHOOSE r \in Refs : ~C[r].exists /\ \A q \in 1..(r-1) : C[q].exists
\* how many references of the run are not issued yet
ReferencesLeft(C) == Cardinality({r \in Refs : ~C[r].exists})

\* data.paid_at of the provider for the charge behind reference r
PaidAtOf(r) == 10 + r

\* ---------------------------------------------------------------- the store
Matching(P, ref) == {p \in P : p.paystackReference = ref}

\* (mutant) the update document lacks paidAt
FindOneAndUpdateStatusOnly(P, ref, status, setPaidAt, paidAt) ==
    {IF p.paystackReference = ref THEN [p EXCEPT !.status = status] ELSE p : p \in P}

\* (mutant) the filter names a field no document has: nothing matches
FindOneAndUpdateNoMatch(P, ref, status, setPaidAt, paidAt) == P

\* Payment.findOneAndUpdate({paystackReference: ref}, {status, paidAt?}, {new: true}):
\* the filter names the reference only, never the current status.
FindOneAndUpdate(P, ref, status, setPaidAt, paidAt) ==
    {IF p.paystackReference = ref
       THEN [p EXCEPT !.status = status,
                      !.paidAt = IF setPaidAt THEN paidAt ELSE @]
       ELSE p : p \in P}

\* the _id of the document findOneAndUpdate returned, NullId when none matched
UpdatedId(P, ref) ==
    IF Matching(P, ref) = {} THEN NullId
    ELSE (CHOOSE p \in Matching(P, ref) : TRUE).id

\* status before the update, "none" when no document matched
PrevStatus(P, ref) ==
    IF Matching(P, ref) = {} THEN "none"
    ELSE (CHOOSE p \in Matching(P, ref) : TRUE).status

\* a fresh ObjectId
NewId(P) == Cardinality(P) + 1

\* (mutant) a partial unique index, over pending documents only
DuplicateKeyPendingOnly(P, ref) == \E p \in Matching(P, ref) : p.status = "pending"

\* (mutant) paystackReference without `unique: true`: save() never rejects
DuplicateKeyNoIndex(P, ref) == FALSE

\* the unique index on paystackReference rejects save() with E11000
DuplicateKey(P, ref) == Matching(P, ref) # {}

\* (mutant) paidAt declared with `default: Date.now`
NewPaymentStamped(P, ref, ch, status, paidAt) ==
    [id |-> NewId(P), studentId |-> ch.student_id, paystackReference |-> ref,
     amount |-> ch.amount, status |-> status,
     semester |-> ch.term.semester, academicYear |-> ch.term.academicYear,
     paidAt |-> PaidAtOf(ref)]

\* new Payment({studentId, paystackReference, amount, status, semester, academicYear})
NewPayment(P, ref, ch, status, paidAt) ==
    [id |-> NewId(P), studentId |-> ch.student_id, paystackReference |-> ref,
     amount |-> ch.amount, status |-> status,
     semester |-> ch.term.semester, academicYear |-> ch.term.academicYear,
     paidAt |-> paidAt]

\* $addToSet on the paymentHistory array
AddToSet(arr, x) ==
    IF \E i \in 1..Len(arr) : arr[i] = x THEN arr ELSE Append(arr, x)

\* (mutant) the update document lacks currentSemesterPaymentStatus
MarkPaidHistoryOnly(S, sid, term, id) ==
    IF sid \in DOMAIN S
      THEN [S EXCEPT ![sid].lastPaidSemester = term.semester,
                     ![sid].lastPaidAcademicYear = term.academicYear,
                     ![sid].paymentHistory = AddToSet(@, id)]
      ELSE S

\* Student.findByIdAndUpdate(student_id, {currentSemesterPaymentStatus: 'paid', ...,
\* $addToSet: {paymentHistory: id}}); an id that names no student updates nothing.
MarkPaid(S, sid, term, id) ==
    IF sid \in DOMAIN S
      THEN [S EXCEPT ![sid] =
              [currentSemesterPaymentStatus |-> "paid",
               lastPaidSemester |-> term.semester,
               lastPaidAcademicYear |-> term.academicYear,
               paymentHistory |-> AddToSet(@.paymentHistory, id)]]
      ELSE S

NewStudent == [currentSemesterPaymentStatus |-> "unpaid",
               lastPaidSemester |-> "null",
               lastPaidAcademicYear |-> "null",
               paymentHistory |-> <<>>]

\* ------------------------------------------------------------ the requests
\* req.body of a request that has no reference yet
NoBody == [studentId |-> UnknownStudent, term |-> NoTerm, amount |-> 0]

Idle == [kind |-> "idle", pc |-> "idle", ref |-> 0, id |-> NullId, prev |-> "none",
         body |-> NoBody]

\* a handler waiting on an operation for reference ref: the _id its
\* findOneAndUpdate returned and the status the document had before
Req(kind, pc, ref, id, prev) ==
    [kind |-> kind, pc |-> pc, ref |-> ref, id |-> id, prev |-> prev,
     body |-> NoBody]

\* a handler waiting on the gateway with the validated body of its request
Held(kind, pc, sid, term, amount) ==
    [kind |-> kind, pc |-> pc, ref |-> 0, id |-> NullId, prev |-> "none",
     body |-> [studentId |-> sid, term |-> term, amount |-> amount]]

\* what was sent back: the route, the status code and, in the body of
\* initiate-payment's 200, the reference and paymentId
Answer(kind, status, reference, paymentId) ==
    [kind |-> kind, status |-> status, reference |-> reference,
     paymentId |-> paymentId]

Response(kind, status) == Answer(kind, status, 0, NullId)

\* history: remember what the first trigger that wrote the document stored
NoteFirst(F, ref, wrote, status) ==
    IF wrote /\ F[ref] = "none" THEN [F EXCEPT ![ref] = status] ELSE F

\* no delivery singled out
NoWire == [handled |-> TRUE]

\* what Stripe holds for an intent: the metadata create-payment-intent sent
NoIntent == [exists |-> FALSE, studentId |-> UnknownStudent, term |-> NoTerm,
             amount |-> 0]
Intent(sid, term, amount) ==
    [exists |-> TRUE, studentId |-> sid, term |-> term, amount |-> amount]

\* no Stripe revision deployed, nothing of Stripe stored
NoStripe == [handler |-> "none", event |-> "none", payments |-> {},
             intents |-> [r \in Refs |-> NoIntent]]

Init ==
    /\ rev \in Revs
    /\ payments = {}
    /\ students = [s \in Students |-> NewStudent]
    /\ charges = [r \in Refs |-> NoCharge]
    /\ reqs = [i \in Slots |-> Idle]
    /\ resp = Response("none", NoResponse)
    /\ arrived = 0
    /\ firstStatus = [r \in Refs |-> "none"]
    /\ run = [base |-> [payments |-> {}, students |-> [s \in Students |-> NewStudent]],
              started |-> {}]
    /\ wire = NoWire
    /\ stripe = NoStripe


\* a request that arrives takes the first free slot
Free(i) == reqs[i] = Idle /\ \A j \in 1..(i-1) : reqs[j] # Idle

\* Requests are counted up to the bound of a run. While a delivery is repeated
\* until it is acknowledged (wire not handled) there is no such bound: the
\* count stops where the outage of the store ends.
Arrive ==
    IF wire.handled
      THEN arrived < MaxRequests /\ arrived' = arrived + 1
      ELSE arrived' = IF arrived <= MaxOutage THEN arrived + 1 ELSE arrived

\* (mutant) the catch blocks acknowledge instead of reporting the error
FinishSwallowed(i, kind, status) ==
    /\ reqs' = [reqs EXCEPT ![i] = Idle]
    /\ resp' = Response(kind, 200)

\* the handler answers and its slot is free again
Finish(i, kind, status) ==
    /\ reqs' = [reqs EXCEPT ![i] = Idle]
    /\ resp' = Response(kind, status)

\* What becomes of a rejection no handler catches is the build's choice, and
\* the repository fixes none (no package.json, no unhandledRejection handler):
\* node up to 14 only warns, so the request is never answered; Express 5 hands
\* the rejection to next(err), which answers 500; node from 15 on under
\* Express 4 ends the process.
UnhandledRejections == {"ignored", "answered", "exit"}

\* the async handler of slot i rejects
Unhandled(i, kind, outcome) ==
    IF outcome = "answered"
      THEN Finish(i, kind, 500)
    ELSE IF outcome = "exit"
      THEN \* no answer, and every handler in flight is lost with the process
           /\ reqs' = [j \in Slots |-> Idle]
           /\ resp' = Response(kind, NoResponse)
    ELSE Finish(i, kind, NoResponse)

\* res.status(200).json({authorization_url, access_code, reference, paymentId})
FinishWith(i, status, reference, paymentId) ==
    /\ reqs' = [reqs EXCEPT ![i] = Idle]
    /\ resp' = Answer("initiate", status, reference, paymentId)

\* the handler waits on its next awaited operation
Continue(i, r) ==
    /\ reqs' = [reqs EXCEPT ![i] = r]
    /\ UNCHANGED resp

\* --------------------------------------------------------------- signature
\* crypto.createHmac('sha512', key).update(bytes).digest('hex'): equal digests
\* only for equal key and bytes
Hmac(key, bytes) == <<key, bytes>>

\* express.json() parses the raw body; JSON.stringify(req.body) writes the parsed
\* value back in compact form, whatever the layout of the bytes received
Parse(raw) == raw.content
Stringify(value) == [content |-> value, layout |-> "compact"]

\* (mutant) JSON.stringify(req.body, null, 2): the hash is taken over indented bytes
SignatureOverPretty(d) ==
    Hmac(Secret, [content |-> Parse(d.raw), layout |-> "pretty"]) = d.signature

\* (mutant) the hash is taken over bytes that do not depend on the body received
SignatureOfAnyBytes(d) == d.signature[1] = Secret

\* hash == req.headers['x-paystack-signature']
SignatureOk(d) == Hmac(Secret, Stringify(Parse(d.raw))) = d.signature

Contents == [event : EventTypes, reference : Refs]

\* a delivery: the provider signs the compact bytes of `signed` with `key`, and
\* the bytes of `sent` arrive under that signature header
Delivery(sent, signed, key) ==
    [raw |-> [content |-> sent, layout |-> "compact"],
     signature |-> Hmac(key, [content |-> signed, layout |-> "compact"])]

\* a delivery of the provider itself: unmodified and signed with the shared secret
Genuine(d) == \E c \in Contents : d = Delivery(c, c, Secret)

\* the provider's delivery of an event for a reference
Event(type, ref) ==
    Delivery([event |-> type, reference |-> ref],
             [event |-> type, reference |-> ref], Secret)

\* deliveries that are not the provider's: a charge.success body under a
\* signature made with another key, and one whose event type or reference was
\* altered under the signature of the original
Forged ==
    {Delivery(c, c, k) :
        c \in {c \in Contents : c.event = "charge.success"}, k \in Keys \ {Secret}}
    \cup {Delivery(p[1], p[2], Secret) :
             p \in {p \in Contents \X Contents :
                      /\ p[1] # p[2]
                      /\ p[1].event = "charge.success"
                      /\ p[2].event # "transfer.success"
                      /\ \/ p[1].event = p[2].event
                         \/ p[1].reference = p[2].reference}}

\* what arrives at the endpoint
Deliveries == {Event(c.event, c.reference) : c \in Contents} \cup Forged

\* ------------------------------------------------------- POST /webhook
\* Arrival up to and including the first store operation.
WebhookArrive(i, d, dbOk) ==
    /\ Free(i)
    /\ Arrive
    /\ LET event == Parse(d.raw).event
           ref == Parse(d.raw).reference
           ch == charges[ref]
       IN
       /\ Genuine(d) => ch.exists
       /\ IF ~SignatureOk(d)
            THEN /\ Finish(i, "webhook", 400)
                 /\ UNCHANGED <<payments, students, firstStatus>>
          ELSE IF event = "charge.success"
            THEN IF ~ch.metadata
                   THEN \* part_004 answers 400; PaymentRoute.js destructures
                        \* undefined outside its try: the handler rejects
                        /\ IF rev = "part_004"
                             THEN Finish(i, "webhook", 400)
                             ELSE \E outcome \in UnhandledRejections :
                                     Unhandled(i, "webhook", outcome)
                        /\ UNCHANGED <<payments, students, firstStatus>>
                 ELSE IF ~dbOk
                   THEN /\ Finish(i, "webhook", 500)
                        /\ UNCHANGED <<payments, students, firstStatus>>
                 ELSE /\ payments' = FindOneAndUpdate(payments, ref, "success",
                                                      TRUE, PaidAtOf(ref))
                      /\ firstStatus' = NoteFirst(firstStatus, ref,
                                                  Matching(payments, ref) # {}, "success")
                      /\ IF /\ Matching(payments, ref) = {}
                            /\ rev = "PaymentRoute" /\ ~ch.description
                           THEN \* no document: new Payment({...}) is built before
                                \* save() is called, and `${academicYear}` in its
                                \* fallback description is no variable of
                                \* PaymentRoute.js: ReferenceError, caught, 500
                                Finish(i, "webhook", 500)
                           ELSE Continue(i, Req("webhook",
                                                IF Matching(payments, ref) = {}
                                                  THEN "create" ELSE "student",
                                                ref, UpdatedId(payments, ref),
                                                PrevStatus(payments, ref)))
                      /\ UNCHANGED students
          ELSE IF event = "charge.failed"
            THEN IF ~dbOk
                   THEN /\ Finish(i, "webhook", 500)
                        /\ UNCHANGED <<payments, students, firstStatus>>
                 ELSE /\ payments' = FindOneAndUpdate(payments, ref, "failed",
                                                      FALSE, NoPaidAt)
                      /\ firstStatus' = NoteFirst(firstStatus, ref,
                                                  Matching(payments, ref) # {}, "failed")
                      /\ Finish(i, "webhook", 200)
                      /\ UNCHANGED students
          ELSE /\ Finish(i, "webhook", 200)
               /\ UNCHANGED <<payments, students, firstStatus>>
    /\ UNCHANGED <<rev, charges>>

\* No document matched and the new Payment was built: newPayment.save()
WebhookCreate(i, dbOk) ==
    /\ reqs[i].kind = "webhook" /\ reqs[i].pc = "create"
    /\ LET ref == reqs[i].ref
           ch == charges[ref]
       IN
       IF ~dbOk \/ DuplicateKey(payments, ref)
         THEN /\ Finish(i, "webhook", 500)
              /\ UNCHANGED <<payments, firstStatus>>
       ELSE /\ payments' = payments \cup
                    {NewPayment(payments, ref, ch, "success", PaidAtOf(ref))}
            /\ firstStatus' = NoteFirst(firstStatus, ref, TRUE, "success")
            /\ Continue(i, Req("webhook", "student", ref, NewId(payments), "none"))
    /\ UNCHANGED <<rev, students, charges, arrived>>

\* Student.findByIdAndUpdate(student_id, ...) and the acknowledgment
WebhookStudent(i, dbOk) ==
    /\ reqs[i].kind = "webhook" /\ reqs[i].pc = "student"
    /\ LET ch == charges[reqs[i].ref] IN
       IF ~dbOk
         THEN /\ Finish(i, "webhook", 500)
              /\ UNCHANGED students
       ELSE /\ students' = MarkPaid(students, ch.student_id, ch.term, reqs[i].id)
            /\ Finish(i, "webhook", 200)
    /\ UNCHANGED <<rev, payments, charges, arrived, firstStatus>>

\* ------------------------------------------------------------- protect
\* req.headers.authorization && req.headers.authorization.startsWith('Bearer');
\* otherwise 401 and the handler is never entered
Protect(authorized) == authorized

\* ------------------------------------------- GET /verify-payment/:reference
\* (mutant) every answer of the provider counts as paid
ProviderAnswered(gateway) == gateway # "unavailable"

\* paystackData && paystackData.status === 'success'
ProviderSucceeded(gateway) == gateway = "success"

\* protect and the call to transaction/verify; on status success the handler
\* goes on to await findOneAndUpdate.
VerifyArrive(i, authorized, ref, gateway) ==
    /\ Free(i)
    /\ Arrive
    /\ LET ch == charges[ref] IN
       IF ~Protect(authorized)
         THEN Finish(i, "verify", 401)
       ELSE IF ~ch.exists \/ gateway = "unavailable"
         THEN \* axios rejects (unknown reference, transport failure): catch, 500
              Finish(i, "verify", 500)
       ELSE IF ~ProviderSucceeded(gateway)
         THEN Finish(i, "verify", 400)
       ELSE IF ~ch.metadata
         THEN \* destructuring undefined metadata: TypeError, catch, 500
              Finish(i, "verify", 500)
       ELSE Continue(i, Req("verify", "update", ref, NullId, "none"))
    /\ UNCHANGED <<rev, payments, students, charges, firstStatus>>

\* Payment.findOneAndUpdate({paystackReference: reference}, {status: 'success', ...})
VerifyUpdate(i, dbOk) ==
    /\ reqs[i].kind = "verify" /\ reqs[i].pc = "update"
    /\ LET ref == reqs[i].ref IN
       IF ~dbOk
         THEN /\ Finish(i, "verify", 500)
              /\ UNCHANGED <<payments, firstStatus>>
       ELSE /\ payments' = FindOneAndUpdate(payments, ref, "success",
                                            TRUE, PaidAtOf(ref))
            /\ firstStatus' = NoteFirst(firstStatus, ref,
                                        Matching(payments, ref) # {}, "success")
            /\ IF rev = "PaymentRoute" /\ Matching(payments, ref) = {}
                 THEN \* updatedPayment._id of null: TypeError, catch, 500
                      Finish(i, "verify", 500)
                 ELSE Continue(i, Req("verify", "student", ref,
                                      UpdatedId(payments, ref),
                                      PrevStatus(payments, ref)))
    /\ UNCHANGED <<rev, students, charges, arrived>>

\* Student.findByIdAndUpdate(student_id, ...) and the 200 answer; part_004 gets
\* here with a null id when no Payment matched
VerifyStudent(i, dbOk) ==
    /\ reqs[i].kind = "verify" /\ reqs[i].pc = "student"
    /\ LET ch == charges[reqs[i].ref] IN
       IF ~dbOk
         THEN /\ Finish(i, "verify", 500)
              /\ UNCHANGED students
       ELSE /\ students' = MarkPaid(students, ch.student_id, ch.term, reqs[i].id)
            /\ Finish(i, "verify", 200)
    /\ UNCHANGED <<rev, payments, charges, arrived, firstStatus>>

\* ------------------------------------------------- POST /initiate-payment
\* initiate-payment handlers that will each draw a reference from the gateway
Drawing == Cardinality({i \in Slots : reqs[i].kind = "initiate" /\ reqs[i].pc = "gateway"})

\* protect, validation and Student.findById; with the student found the
\* handler goes on to await transaction/initialize.
InitiateArrive(i, authorized, complete, amount, sid, term, dbOk) ==
    /\ ReferencesLeft(charges) > Drawing
    /\ Free(i)
    /\ Arrive
    /\ IF ~Protect(authorized)
         THEN Finish(i, "initiate", 401)
       ELSE IF ~complete \/ amount = 0 \/ amount <= 0
         THEN Finish(i, "initiate", 400)
       ELSE IF ~dbOk
         THEN \* findById rejects: catch, 500
              Finish(i, "initiate", 500)
       ELSE IF sid \notin DOMAIN students
         THEN Finish(i, "initiate", 404)
       ELSE Continue(i, Held("initiate", "gateway", sid, term, amount))
    /\ UNCHANGED <<rev, payments, students, charges, firstStatus>>

\* amountInKobo and the call to transaction/initialize, which creates the
\* charge and issues its reference; the handler goes on to await save().
InitiateGateway(i, gatewayOk) ==
    /\ reqs[i].kind = "initiate" /\ reqs[i].pc = "gateway"
    /\ LET b == reqs[i].body IN
       IF ~gatewayOk
         THEN \* axios rejects, or Paystack answers with status false: 500
              /\ Finish(i, "initiate", 500)
              /\ UNCHANGED charges
       ELSE /\ charges' = [charges EXCEPT ![NextReference(charges)] =
                               AppCharge(b.studentId, b.term, AmountInKobo(b.amount))]
            /\ Continue(i, [Req("initiate", "save", NextReference(charges),
                                NullId, "none") EXCEPT !.body = b])
    /\ UNCHANGED <<rev, payments, students, arrived, firstStatus>>

\* new Payment({... status: 'pending' ...}).save() and the 200 answer. The
\* store rejects with its own error when it is unavailable, with E11000 when
\* the unique index finds the reference stored.
InitiateSave(i, dbOk) ==
    /\ reqs[i].kind = "initiate" /\ reqs[i].pc = "save"
    /\ LET ref == reqs[i].ref IN
       IF ~dbOk
         THEN /\ Finish(i, "initiate", 500)
              /\ UNCHANGED payments
       ELSE IF DuplicateKey(payments, ref)
         THEN \* error.code === 11000: part_004 answers 409, PaymentRoute.js 500
              /\ Finish(i, "initiate", IF rev = "part_004" THEN 409 ELSE 500)
              /\ UNCHANGED payments
       ELSE /\ payments' = payments \cup
                    {NewPayment(payments, ref, charges[ref], "pending", NoPaidAt)}
            /\ FinishWith(i, 200, ref, NewId(payments))
    /\ UNCHANGED <<rev, students, charges, arrived, firstStatus>>

\* ----------------------------------------------------------- environment
\* a charge appears at the provider that initiate-payment did not create
ForeignCharge(ch) ==
    /\ ReferencesLeft(charges) > Drawing
    /\ charges' = [charges EXCEPT ![NextReference(charges)] = ch]
    /\ UNCHANGED <<rev, payments, students, reqs, resp, arrived, firstStatus>>

Next ==
    \/ \E i \in Slots, d \in Deliveries, dbOk \in BOOLEAN :
          WebhookArrive(i, d, dbOk) /\ UNCHANGED <<run, wire, stripe>>
    \/ \E i \in Slots, dbOk \in BOOLEAN : WebhookCreate(i, dbOk) /\ UNCHANGED <<run, wire, stripe>>
    \/ \E i \in Slots, dbOk \in BOOLEAN : WebhookStudent(i, dbOk) /\ UNCHANGED <<run, wire, stripe>>
    \/ \E i \in Slots, authorized \in BOOLEAN, ref \in Refs, g \in GatewayAnswers :
          VerifyArrive(i, authorized, ref, g) /\ UNCHANGED <<run, wire, stripe>>
    \/ \E i \in Slots, dbOk \in BOOLEAN : VerifyUpdate(i, dbOk) /\ UNCHANGED <<run, wire, stripe>>
    \/ \E i \in Slots, dbOk \in BOOLEAN : VerifyStudent(i, dbOk) /\ UNCHANGED <<run, wire, stripe>>
    \/ \E i \in Slots, authorized \in BOOLEAN, complete \in BOOLEAN, amount \in Amounts,
          q \in Requests, dbOk \in BOOLEAN :
          InitiateArrive(i, authorized, complete, amount, q.studentId, q.term, dbOk)
             /\ UNCHANGED <<run, wire, stripe>>
    \/ \E i \in Slots, gatewayOk \in BOOLEAN :
          InitiateGateway(i, gatewayOk) /\ UNCHANGED <<run, wire, stripe>>
    \/ \E i \in Slots, dbOk \in BOOLEAN : InitiateSave(i, dbOk) /\ UNCHANGED <<run, wire, stripe>>
    \/ \E ch \in ForeignCharges : ForeignCharge(ch) /\ UNCHANGED <<run, wire, stripe>>

Spec == Init /\ [][Next]_vars

\* --------------------------------------------------------------------
\* A paired run: after initiate-payment has been answered for reference 1
\* (its Payment saved, or the save failed), one verify-payment call for which
\* the gateway reports success and one charge.success delivery for that
\* reference are handled, their store operations interleaved in any order.
\* --------------------------------------------------------------------
PairRef == CHOOSE r \in Refs : \A q \in Refs : r <= q

\* verify-payment handled alone on store st, the gateway reporting success
VerifyResult(st, r) ==
    LET ch == charges[r]
        P == FindOneAndUpdate(st.payments, r, "success", TRUE, PaidAtOf(r))
    IN IF ~ch.metadata THEN st
       ELSE IF rev = "PaymentRoute" /\ Matching(st.payments, r) = {}
         THEN [payments |-> P, students |-> st.students]
       ELSE [payments |-> P,
             students |-> MarkPaid(st.students, ch.student_id, ch.term,
                                   UpdatedId(st.payments, r))]

\* a charge.success delivery handled alone on store st
WebhookResult(st, r) ==
    LET ch == charges[r] IN
    IF ~ch.metadata THEN st
    ELSE IF Matching(st.payments, r) # {}
      THEN [payments |-> FindOneAndUpdate(st.payments, r, "success", TRUE, PaidAtOf(r)),
            students |-> MarkPaid(st.students, ch.student_id, ch.term,
                                  UpdatedId(st.payments, r))]
    ELSE IF rev = "PaymentRoute" /\ ~ch.description THEN st
    ELSE [payments |-> st.payments \cup
                         {NewPayment(st.payments, r, ch, "success", PaidAtOf(r))},
          students |-> MarkPaid(st.students, ch.student_id, ch.term,
                                NewId(st.payments))]

PairInit ==
    /\ rev \in Revs
    /\ \E q \in {q \in Requests : q.studentId \in Students}, saved \in BOOLEAN :
          LET ch == AppCharge(q.studentId, q.term, FeeKobo) IN
          /\ charges = [r \in Refs |-> IF r = PairRef THEN ch ELSE NoCharge]
          /\ payments = IF saved
                          THEN {NewPayment({}, PairRef, ch, "pending", NoPaidAt)}
                          ELSE {}
          /\ resp = IF saved THEN Answer("initiate", 200, PairRef, NewId({}))
                             ELSE Response("initiate", 500)
    /\ students = [s \in Students |-> NewStudent]
    /\ reqs = [i \in Slots |-> Idle]
    /\ arrived = 1
    /\ firstStatus = [r \in Refs |-> "none"]
    /\ run = [base |-> [payments |-> payments, students |-> students],
              started |-> {}]
    /\ wire = NoWire
    /\ stripe = NoStripe

Begin(kind) ==
    /\ kind \notin run.started
    /\ run' = [run EXCEPT !.started = @ \cup {kind}]

PairNext ==
    \/ \E i \in Slots : VerifyArrive(i, TRUE, PairRef, "success") /\ Begin("verify") /\ UNCHANGED <<wire, stripe>>
    \/ \E i \in Slots : VerifyUpdate(i, TRUE) /\ UNCHANGED <<run, wire, stripe>>
    \/ \E i \in Slots :
          WebhookArrive(i, Event("charge.success", PairRef), TRUE) /\ Begin("webhook") /\ UNCHANGED <<wire, stripe>>
    \/ \E i \in Slots : WebhookCreate(i, TRUE) /\ UNCHANGED <<run, wire, stripe>>
    \/ \E i \in Slots : WebhookStudent(i, TRUE) /\ UNCHANGED <<run, wire, stripe>>
    \/ \E i \in Slots : VerifyStudent(i, TRUE) /\ UNCHANGED <<run, wire, stripe>>

SpecPair == PairInit /\ [][PairNext]_vars

\* --------------------------------------------------------------------
\* A signature run: one delivery reaches POST /webhook and is handled. The
\* body is JSON text; besides its content it has a layout (white space, escapes,
\* number formats) which JSON.stringify(req.body) does not reproduce unless the
\* text was compact to begin with. The signature header is an HMAC somebody
\* made over some bytes with some key.
\* --------------------------------------------------------------------
Layouts == {"compact", "spaced"}
Bytes == [content : Contents, layout : Layouts]

\* bytes `sent` arriving under the signature made over bytes `signed` with `key`
Wire(sent, signed, key) == [raw |-> sent, signature |-> Hmac(key, signed)]

WireDeliveries == {Wire(b, c, k) : b \in Bytes, c \in Bytes, k \in Keys}

WireInit ==
    /\ rev \in Revs
    /\ payments = {}
    /\ students = [s \in Students |-> NewStudent]
    /\ charges = [r \in Refs |-> AppCharge(1, Fall, FeeKobo)]
    /\ reqs = [i \in Slots |-> Idle]
    /\ resp = Response("none", NoResponse)
    /\ arrived = 0
    /\ firstStatus = [r \in Refs |-> "none"]
    /\ run = [base |-> [payments |-> {}, students |-> [s \in Students |-> NewStudent]],
              started |-> {}]
    /\ \E d \in WireDeliveries : wire = [d |-> d, handled |-> FALSE]
    /\ stripe = NoStripe

WireNext ==
    \/ \E i \in Slots, dbOk \in BOOLEAN :
          /\ ~wire.handled
          /\ WebhookArrive(i, wire.d, dbOk)
          /\ wire' = [wire EXCEPT !.handled = TRUE]
          /\ UNCHANGED <<run, stripe>>
    \/ \E i \in Slots, dbOk \in BOOLEAN : WebhookCreate(i, dbOk) /\ UNCHANGED <<run, wire, stripe>>
    \/ \E i \in Slots, dbOk \in BOOLEAN : WebhookStudent(i, dbOk) /\ UNCHANGED <<run, wire, stripe>>

SpecWire == WireInit /\ [][WireNext]_vars

\* --------------------------------------------------------------------
\* An amount run: initiate-payment is tried with amounts down to fractions of
\* a kobo, and charge.success deliveries follow for the charges it created.
\* --------------------------------------------------------------------
AmountInputs == {-1 * Milli, 0, 4, 5, 1005, 5000 * Milli}

AmountNext ==
    \/ \E i \in Slots, amount \in AmountInputs, q \in Requests :
          InitiateArrive(i, TRUE, TRUE, amount, q.studentId, q.term, TRUE)
             /\ UNCHANGED <<run, wire, stripe>>
    \/ \E i \in Slots, gatewayOk \in BOOLEAN :
          InitiateGateway(i, gatewayOk) /\ UNCHANGED <<run, wire, stripe>>
    \/ \E i \in Slots, dbOk \in BOOLEAN : InitiateSave(i, dbOk) /\ UNCHANGED <<run, wire, stripe>>
    \/ \E i \in Slots, r \in Refs :
          WebhookArrive(i, Event("charge.success", r), TRUE) /\ UNCHANGED <<run, wire, stripe>>
    \/ \E i \in Slots : WebhookCreate(i, TRUE) /\ UNCHANGED <<run, wire, stripe>>
    \/ \E i \in Slots : WebhookStudent(i, TRUE) /\ UNCHANGED <<run, wire, stripe>>

SpecAmount == Init /\ [][AmountNext]_vars

\* --------------------------------------------------------------------
\* The Stripe integration: create-payment-intent and the webhook, in two
\* revisions (src/unnamed/part_003 and src/Routes/StudentsGetRoutes.js, the
\* latter mounted by the app beside the Paystack routes). Its handlers run in
\* the same process on the same Student collection; their Payment documents
\* are keyed by the intent id (stripePaymentIntentId, paymentIntentId) and are
\* held in stripe.payments, the Paystack ones in payments. Fields the
\* reconciliation does not read (currency, description, receiptUrl, updatedAt)
\* are left out.
\* --------------------------------------------------------------------
StripeHandlers == {"part_003", "StudentsGetRoutes"}

\* paymentIntent.id of the r-th intent Stripe creates: a string "pi_..."
PaymentIntentId(r) == 100 + r
IntentIds == {PaymentIntentId(r) : r \in Refs}

\* Mongoose casts an element pushed to paymentHistory to ObjectId; a "pi_..."
\* string is no ObjectId and the update rejects with a CastError
CastsToObjectId(v) == v \notin IntentIds

\* the Stripe event type that corresponds to a Paystack one
StripeEvent(type) ==
    CASE type = "charge.success" -> "payment_intent.succeeded"
      [] type = "charge.failed" -> "payment_intent.payment_failed"
      [] OTHER -> "charge.refunded"

\* the status of the reconciliation state machine a Stripe status stands for
Reconciled(status) ==
    CASE status = "succeeded" -> "success"
      [] status = "failed" -> "failed"
      [] OTHER -> "pending"

\* academicYear || 'N/A', semester || 'N/A' in the metadata of StudentsGetRoutes.js
NotApplicable == [semester |-> "N/A", academicYear |-> "N/A"]

\* the amounts, in cents, create-payment-intent is tried with
StripeAmounts == {-100, 0, FeeKobo}

StripeMatching(P, intent) == {p \in P : p.intent = intent}

\* Payment.findOneAndUpdate({stripePaymentIntentId | paymentIntentId: id}, {status})
StripeFindOneAndUpdate(P, intent, status) ==
    {IF p.intent = intent THEN [p EXCEPT !.status = status] ELSE p : p \in P}

\* new Payment({studentId | student, stripePaymentIntentId | paymentIntentId,
\* amount, status: paymentIntent.status, semester, academicYear})
NewStripePayment(P, r, b) ==
    [id |-> MaxRefs + Cardinality(P) + 1, studentId |-> b.studentId,
     intent |-> PaymentIntentId(r), amount |-> b.amount,
     status |-> "requires_payment_method",
     semester |-> b.term.semester, academicYear |-> b.term.academicYear]

\* create-payment-intent handlers that will each have an intent created
StripeDrawing ==
    Cardinality({i \in Slots : reqs[i].kind = "stripe-create" /\ reqs[i].pc = "intent"})

\* POST create-payment-intent: protect (part_003 only), validation and
\* Student.findById
StripeCreateArrive(i, authorized, complete, amount, sid, term, dbOk) ==
    /\ Cardinality({r \in Refs : ~stripe.intents[r].exists}) > StripeDrawing
    /\ Free(i)
    /\ Arrive
    /\ IF stripe.handler = "part_003" /\ ~Protect(authorized)
         THEN Finish(i, "stripe-create", 401)
       ELSE IF \/ ~complete \/ amount = 0 \/ amount <= 0
               \/ (stripe.handler = "part_003" /\ term = NoTerm)
         THEN Finish(i, "stripe-create", 400)
       ELSE IF ~dbOk
         THEN Finish(i, "stripe-create", 500)
       ELSE IF sid \notin DOMAIN students
         THEN Finish(i, "stripe-create", 404)
       ELSE Continue(i, Held("stripe-create", "intent", sid, term, amount))
    /\ UNCHANGED <<rev, payments, students, charges, firstStatus, stripe>>

\* stripe.paymentIntents.create({amount, currency, metadata})
StripeCreateIntent(i, gatewayOk) ==
    /\ reqs[i].kind = "stripe-create" /\ reqs[i].pc = "intent"
    /\ LET b == reqs[i].body
           r == CHOOSE r \in Refs :
                   ~stripe.intents[r].exists
                   /\ \A q \in 1..(r-1) : stripe.intents[q].exists
       IN
       IF ~gatewayOk
         THEN /\ Finish(i, "stripe-create", 500)
              /\ UNCHANGED stripe
       ELSE /\ stripe' = [stripe EXCEPT !.intents[r] =
                             Intent(b.studentId,
                                    IF b.term = NoTerm THEN NotApplicable ELSE b.term,
                                    b.amount)]
            /\ Continue(i, [Req("stripe-create", "save", r, NullId, "none")
                              EXCEPT !.body = b])
    /\ UNCHANGED <<rev, payments, students, charges, arrived, firstStatus>>

\* newPayment.save() and the answer: 201 in part_003, 200 in StudentsGetRoutes.js
StripeCreateSave(i, dbOk) ==
    /\ reqs[i].kind = "stripe-create" /\ reqs[i].pc = "save"
    /\ LET r == reqs[i].ref
           doc == NewStripePayment(stripe.payments, r, reqs[i].body)
       IN
       IF ~dbOk \/ StripeMatching(stripe.payments, PaymentIntentId(r)) # {}
         THEN /\ Finish(i, "stripe-create", 500)
              /\ UNCHANGED stripe
       ELSE /\ stripe' = [stripe EXCEPT !.payments = @ \cup {doc}]
            /\ reqs' = [reqs EXCEPT ![i] = Idle]
            /\ resp' = Answer("stripe-create",
                              IF stripe.handler = "part_003" THEN 201 ELSE 200,
                              0, doc.id)
    /\ UNCHANGED <<rev, payments, students, charges, arrived, firstStatus>>

\* the Stripe webhook up to and including its findOneAndUpdate. signed: whether
\* stripe.webhooks.constructEvent returns the event; it throws when the
\* signature header does not verify the body. withCharges: whether the intent
\* of the payload carries `charges`.
StripeWebhookArrive(i, signed, type, r, withCharges, dbOk) ==
    /\ Free(i)
    /\ Arrive
    /\ signed => stripe.intents[r].exists
    /\ LET h == stripe.handler
           \* the catch of part_003 answers 500, the one of StudentsGetRoutes.js
           \* logs and falls through to the 200
           caught == IF h = "part_003" THEN 500 ELSE 200
       IN
       IF ~signed
         THEN /\ Finish(i, "stripe-webhook", 400)
              /\ UNCHANGED stripe
       ELSE IF type = "payment_intent.succeeded"
         THEN IF h = "StudentsGetRoutes" /\ ~withCharges
                THEN \* paymentIntentSucceeded.charges.data of undefined:
                     \* TypeError before the update is sent, caught
                     /\ Finish(i, "stripe-webhook", caught)
                     /\ UNCHANGED stripe
              ELSE IF ~dbOk
                THEN /\ Finish(i, "stripe-webhook", caught)
                     /\ UNCHANGED stripe
              ELSE /\ stripe' = [stripe EXCEPT !.payments =
                          StripeFindOneAndUpdate(@, PaymentIntentId(r), "succeeded")]
                   /\ IF h = "part_003"
                        THEN Continue(i, Req("stripe-webhook", "student", r,
                                             NullId, "none"))
                        ELSE Finish(i, "stripe-webhook", 200)
       ELSE IF type = "payment_intent.payment_failed"
         THEN IF ~dbOk
                THEN /\ Finish(i, "stripe-webhook", caught)
                     /\ UNCHANGED stripe
              ELSE /\ stripe' = [stripe EXCEPT !.payments =
                          StripeFindOneAndUpdate(@, PaymentIntentId(r), "failed")]
                   /\ Finish(i, "stripe-webhook", 200)
       ELSE /\ Finish(i, "stripe-webhook", 200)
            /\ UNCHANGED stripe
    /\ UNCHANGED <<rev, payments, students, charges, firstStatus>>

\* part_003: Student.findByIdAndUpdate(studentId, {...,
\* $addToSet: {paymentHistory: paymentIntentSucceeded.id}}) and the answer
StripeWebhookStudent(i, dbOk) ==
    /\ reqs[i].kind = "stripe-webhook" /\ reqs[i].pc = "student"
    /\ LET intent == stripe.intents[reqs[i].ref]
           id == PaymentIntentId(reqs[i].ref)
       IN
       IF ~CastsToObjectId(id) \/ ~dbOk
         THEN /\ Finish(i, "stripe-webhook", 500)
              /\ UNCHANGED students
       ELSE /\ students' = MarkPaid(students, intent.studentId, intent.term, id)
            /\ Finish(i, "stripe-webhook", 200)
    /\ UNCHANGED <<rev, payments, charges, arrived, firstStatus, stripe>>

\* --------------------------------------------------------------------
\* A Stripe run: student 1 pays the Fall fee through Paystack and student 2
\* through Stripe. Each integration creates its payment (the save may fail)
\* and then receives one delivery of the corresponding event; run.base notes
\* for each whether its record was stored when the delivery arrived.
\* --------------------------------------------------------------------
StripeInit ==
    /\ rev \in Revs
    /\ payments = {}
    /\ students = [s \in Students |-> NewStudent]
    /\ charges = [r \in Refs |-> NoCharge]
    /\ reqs = [i \in Slots |-> Idle]
    /\ resp = Response("none", NoResponse)
    /\ arrived = 0
    /\ firstStatus = [r \in Refs |-> "none"]
    /\ run = [base |-> [webhook |-> "none", stripe |-> "none"], started |-> {}]
    /\ wire = NoWire
    /\ \E h \in StripeHandlers, e \in EventTypes :
          stripe = [NoStripe EXCEPT !.handler = h, !.event = e]

\* the delivery of one integration begins: note whether its record is stored
BeginSide(side, stored) ==
    /\ side \notin run.started
    /\ run' = [base |-> [run.base EXCEPT ![side] =
                            IF stored THEN "stored" ELSE "missing"],
               started |-> run.started \cup {side}]

StripeNext ==
    \/ \E i \in Slots :
          /\ ~charges[PairRef].exists
          /\ \A j \in Slots : reqs[j].kind # "initiate"
          /\ InitiateArrive(i, TRUE, TRUE, 5000 * Milli, 1, Fall, TRUE)
          /\ UNCHANGED <<run, wire, stripe>>
    \/ \E i \in Slots : InitiateGateway(i, TRUE) /\ UNCHANGED <<run, wire, stripe>>
    \/ \E i \in Slots, dbOk \in BOOLEAN :
          InitiateSave(i, dbOk) /\ UNCHANGED <<run, wire, stripe>>
    \/ \E i \in Slots, authorized \in BOOLEAN, complete \in BOOLEAN,
          amount \in StripeAmounts, sid \in {2, UnknownStudent},
          term \in {Fall, NoTerm}, dbOk \in BOOLEAN :
          /\ ~stripe.intents[PairRef].exists
          /\ \A j \in Slots : reqs[j].kind # "stripe-create"
          /\ StripeCreateArrive(i, authorized, complete, amount, sid, term, dbOk)
          /\ UNCHANGED <<run, wire>>
    \/ \E i \in Slots, gatewayOk \in BOOLEAN :
          StripeCreateIntent(i, gatewayOk) /\ UNCHANGED <<run, wire>>
    \/ \E i \in Slots, dbOk \in BOOLEAN :
          StripeCreateSave(i, dbOk) /\ UNCHANGED <<run, wire>>
    \/ \E i \in Slots :
          /\ \A j \in Slots : reqs[j].kind # "initiate"
          /\ WebhookArrive(i, Event(stripe.event, PairRef), TRUE)
          /\ BeginSide("webhook", Matching(payments, PairRef) # {})
          /\ UNCHANGED <<wire, stripe>>
    \/ \E i \in Slots : WebhookCreate(i, TRUE) /\ UNCHANGED <<run, wire, stripe>>
    \/ \E i \in Slots : WebhookStudent(i, TRUE) /\ UNCHANGED <<run, wire, stripe>>
    \/ \E i \in Slots, signed \in BOOLEAN, withCharges \in BOOLEAN, dbOk \in BOOLEAN :
          /\ \A j \in Slots : reqs[j].kind # "stripe-create"
          /\ StripeWebhookArrive(i, signed, StripeEvent(stripe.event), PairRef,
                                 withCharges, dbOk)
          /\ IF signed /\ dbOk
               THEN BeginSide("stripe",
                       StripeMatching(stripe.payments, PaymentIntentId(PairRef)) # {})
               ELSE UNCHANGED run
          /\ UNCHANGED wire
    \/ \E i \in Slots, dbOk \in BOOLEAN :
          StripeWebhookStudent(i, dbOk) /\ UNCHANGED <<run, wire>>

SpecStripe == StripeInit /\ [][StripeNext]_vars

\* --------------------------------------------------------------------
\* A retry run: the provider delivers the charge.success event of one charge
\* whose metadata names a registered student, semester and academic year, one
\* delivery at a time, again after every answer that is not 200. The store may
\* reject any operation until MaxOutage requests have been received, and none
\* after that. wire holds the event, whether the provider has its 200, and
\* whether the number of deliveries so far is odd.
\* --------------------------------------------------------------------
RetryCharges ==
    {AppCharge(q.studentId, q.term, FeeKobo) : q \in {q \in Requests : q.studentId \in Students}}
    \cup {ch \in ForeignCharges : ch.metadata /\ ch.student_id \in Students}

\* what a store operation may do now: succeed, or reject while the outage lasts
StoreAnswers == IF arrived <= MaxOutage THEN BOOLEAN ELSE {TRUE}

RetryInit ==
    /\ rev \in Revs
    /\ \E ch \in RetryCharges, saved \in BOOLEAN :
          /\ saved => ch.description
          /\ charges = [r \in Refs |-> IF r = PairRef THEN ch ELSE NoCharge]
          /\ payments = IF saved
                          THEN {NewPayment({}, PairRef, ch, "pending", NoPaidAt)}
                          ELSE {}
    /\ students = [s \in Students |-> NewStudent]
    /\ reqs = [i \in Slots |-> Idle]
    /\ resp = Response("none", NoResponse)
    /\ arrived = 0
    /\ firstStatus = [r \in Refs |-> "none"]
    /\ run = [base |-> [payments |-> payments, students |-> students],
              started |-> {}]
    /\ wire = [d |-> Event("charge.success", PairRef), handled |-> FALSE,
               odd |-> FALSE]
    /\ stripe = NoStripe

\* the provider delivers, or delivers again
Redeliver ==
    /\ ~wire.handled
    /\ \A j \in Slots : reqs[j] = Idle
    /\ \E i \in Slots, dbOk \in StoreAnswers : WebhookArrive(i, wire.d, dbOk)
    /\ wire' = [wire EXCEPT !.odd = ~@]
    /\ UNCHANGED <<run, stripe>>

RetryNext ==
    \/ Redeliver
    \/ \E i \in Slots, dbOk \in StoreAnswers :
          WebhookCreate(i, dbOk) /\ UNCHANGED <<run, wire, stripe>>
    \/ \E i \in Slots, dbOk \in StoreAnswers :
          /\ WebhookStudent(i, dbOk)
          /\ wire' = [wire EXCEPT !.handled = (resp'.status = 200)]
          /\ UNCHANGED <<run, stripe>>

\* Node runs every continuation that is ready and the provider does not give up
SpecRetry == RetryInit /\ [][RetryNext]_vars /\ WF_vars(RetryNext)

\* ====================================================================
\* The claims
\* ====================================================================
Terminal(p) == p.status \in {"success", "failed"}

Count(arr, x) == Cardinality({k \in 1..Len(arr) : arr[k] = x})

\* slot i takes a step
Steps(i) == reqs'[i] # reqs[i]

\* the parsed fields of a delivery
RefOf(d) == Parse(d.raw).reference

\* C1: once the stored Transaction of a reference has status success or failed,
\* no later step (verify-payment call or signed webhook) changes its status or
\* its paidAt.
C1_TerminalAbsorbing ==
    [][\A p \in payments :
          Terminal(p) =>
             \E q \in payments' :
                q.id = p.id /\ q.status = p.status /\ q.paidAt = p.paidAt]_vars

\* C2: a trigger whose findOneAndUpdate found the Transaction already success
\* writes nothing to the student record: its student step leaves every
\* projection as it was.
C2_DuplicateWritesNothing ==
    [][\A i \in Slots :
          (reqs[i].pc = "student" /\ reqs[i].prev = "success" /\ Steps(i))
             => students' = students]_vars

\* C3: after any number of triggers for a reference, its Transaction carries the
\* status the first writing trigger stored, and the owner's paymentHistory holds
\* the Transaction's id no more than once.
C3_FirstTriggerWins ==
    \A p \in payments :
       firstStatus[p.paystackReference] # "none" =>
          /\ p.status = firstStatus[p.paystackReference]
          /\ p.studentId \in Students =>
                Count(students[p.studentId].paymentHistory, p.id) <= 1

\* a request arrives in slot i
Arrives(i) == Free(i) /\ arrived' # arrived

\* deliveries the signature check must turn away
Rejectable == {d \in Deliveries : ~SignatureOk(d) \/ ~Genuine(d)}

\* C5: a webhook delivery that fails the signature check (a signature made with
\* another key, or a body altered under the original signature) changes no
\* Transaction and no student projection and is answered 400.
C5_BadSignatureNoEffect ==
    [][\A i \in Slots :
          Arrives(i) =>
             \/ /\ UNCHANGED <<payments, students, charges>>
                /\ reqs'[i] = Idle
                /\ resp' = Response("webhook", 400)
             \/ \A d \in Rejectable, dbOk \in BOOLEAN : ~WebhookArrive(i, d, dbOk)]_vars

C5_Witness ==
    /\ rev = "PaymentRoute"
    /\ resp = Response("webhook", 400)
    /\ payments = {}

\* C6: a correctly signed charge.success webhook for a reference whose
\* Transaction is pending makes the Transaction success with the event's
\* paid_at, and its student step marks the owner paid for the Transaction's
\* semester and academicYear with the Transaction's id in paymentHistory.
C6_WebhookSuccessOnPending ==
    [][/\ \A i \in Slots, r \in Refs :
             (/\ Arrives(i)
              /\ \E p \in Matching(payments, r) : p.status = "pending"
              /\ WebhookArrive(i, Event("charge.success", r), TRUE))
                => /\ Matching(payments', r) # {}
                   /\ \A q \in Matching(payments', r) :
                         q.status = "success" /\ q.paidAt = PaidAtOf(r)
                   /\ reqs'[i].pc = "student"
       /\ \A i \in Slots :
             (reqs[i].prev = "pending" /\ WebhookStudent(i, TRUE))
                => \E p \in Matching(payments, reqs[i].ref) :
                      /\ p.id = reqs[i].id
                      /\ p.studentId \in Students
                      /\ students'[p.studentId].currentSemesterPaymentStatus = "paid"
                      /\ students'[p.studentId].lastPaidSemester = p.semester
                      /\ students'[p.studentId].lastPaidAcademicYear = p.academicYear
                      /\ Count(students'[p.studentId].paymentHistory, p.id) = 1
                      /\ resp' = Response("webhook", 200)]_vars

C6_Witness ==
    \E i \in Slots :
       /\ reqs[i].kind = "webhook" /\ reqs[i].pc = "student"
       /\ reqs[i].prev = "pending"
       /\ \E p \in Matching(payments, reqs[i].ref) :
             p.status = "success" /\ p.paidAt = PaidAtOf(reqs[i].ref)

\* C7: a correctly signed charge.success webhook for a reference with no local
\* Transaction creates one in status success from the event (studentId, amount,
\* semester, academicYear, paid_at), and its student step marks the student
\* paid with the new Transaction's id in paymentHistory.
C7_ReconstructFromEvent ==
    [][/\ \A i \in Slots, r \in Refs :
             (/\ Arrives(i)
              /\ Matching(payments, r) = {}
              /\ charges[r].metadata
              /\ WebhookArrive(i, Event("charge.success", r), TRUE))
                => reqs'[i].pc = "create" /\ reqs'[i].ref = r
       /\ \A i \in Slots :
             (/\ reqs[i].pc = "create"
              /\ Matching(payments, reqs[i].ref) = {}
              /\ WebhookCreate(i, TRUE))
                => \E q \in Matching(payments', reqs[i].ref) :
                      /\ q.status = "success"
                      /\ q.studentId = charges[reqs[i].ref].student_id
                      /\ q.amount = charges[reqs[i].ref].amount
                      /\ q.semester = charges[reqs[i].ref].term.semester
                      /\ q.academicYear = charges[reqs[i].ref].term.academicYear
                      /\ q.paidAt = PaidAtOf(reqs[i].ref)
                      /\ reqs'[i].pc = "student" /\ reqs'[i].id = q.id
       /\ \A i \in Slots :
             (reqs[i].prev = "none" /\ WebhookStudent(i, TRUE))
                => LET sid == charges[reqs[i].ref].student_id IN
                   sid \in Students =>
                      /\ students'[sid].currentSemesterPaymentStatus = "paid"
                      /\ Count(students'[sid].paymentHistory, reqs[i].id) = 1]_vars

\* C8: a verify-payment call for which the gateway reports success, for a
\* reference whose Transaction is pending, makes the Transaction success with
\* the provider's paid_at, and its student step marks the owner paid.
C8_VerifySuccessOnPending ==
    [][/\ \A i \in Slots :
             (/\ reqs[i].kind = "verify" /\ reqs[i].pc = "update"
              /\ \E p \in Matching(payments, reqs[i].ref) : p.status = "pending"
              /\ VerifyUpdate(i, TRUE))
                => /\ Matching(payments', reqs[i].ref) # {}
                   /\ \A q \in Matching(payments', reqs[i].ref) :
                         q.status = "success" /\ q.paidAt = PaidAtOf(reqs[i].ref)
                   /\ reqs'[i].pc = "student"
       /\ \A i \in Slots :
             (reqs[i].prev = "pending" /\ VerifyStudent(i, TRUE))
                => \E p \in Matching(payments, reqs[i].ref) :
                      /\ p.studentId \in Students
                      /\ students'[p.studentId].currentSemesterPaymentStatus = "paid"
                      /\ resp' = Response("verify", 200)]_vars

C8_Witness ==
    \E i \in Slots :
       /\ reqs[i].kind = "verify" /\ reqs[i].pc = "student"
       /\ reqs[i].prev = "pending"
       /\ \E p \in Matching(payments, reqs[i].ref) :
             p.status = "success" /\ p.paidAt = PaidAtOf(reqs[i].ref)

\* C9: a verify-payment call for which the provider reports anything but
\* success changes no Transaction and no student projection, and its answer is
\* not a success: 400 when the provider answered, 500 when it could not be
\* reached or does not know the reference.
C9_VerifyNotSuccessNoEffect ==
    [][\A i \in Slots :
          Arrives(i) =>
             \A r \in Refs, g \in GatewayAnswers \ {"success"} :
                VerifyArrive(i, TRUE, r, g)
                   => /\ UNCHANGED <<payments, students>>
                      /\ reqs'[i] = Idle
                      /\ resp' = Response("verify",
                                          IF charges[r].exists /\ g # "unavailable"
                                            THEN 400 ELSE 500)]_vars

C9_Witness ==
    /\ resp = Response("verify", 400)
    /\ \E p \in payments : p.status = "pending"

\* C10: a correctly signed charge.failed webhook for a reference whose
\* Transaction is pending makes the Transaction failed, leaves it without
\* paidAt, and changes no student projection.
C10_WebhookFailedOnPending ==
    [][\A i \in Slots, r \in Refs :
          (/\ Arrives(i)
           /\ \E p \in Matching(payments, r) : p.status = "pending"
           /\ WebhookArrive(i, Event("charge.failed", r), TRUE))
             => /\ Matching(payments', r) # {}
                /\ \A q \in Matching(payments', r) :
                      q.status = "failed" /\ q.paidAt = NoPaidAt
                /\ students' = students
                /\ resp' = Response("webhook", 200)]_vars

C10_Witness ==
    /\ resp = Response("webhook", 200)
    /\ \E p \in payments :
          /\ p.status = "failed" /\ p.paidAt = NoPaidAt
          /\ firstStatus[p.paystackReference] = "failed"

\* both triggers of the paired run have been handled
PairDone ==
    /\ run.started = {"verify", "webhook"}
    /\ \A i \in Slots : reqs[i] = Idle

\* a store with every paymentHistory read as a set
AsSets(st) ==
    [payments |-> st.payments,
     students |-> [s \in DOMAIN st.students |->
                     [st.students[s] EXCEPT
                        !.paymentHistory = {@[k] : k \in 1..Len(@)}]]]

\* C4: when a verify-payment call and a charge.success delivery for the same
\* reference have both been handled, interleaved in any way, the Payment
\* collection and the student projections are what handling them one after the
\* other leaves, in either order.
C4_Confluence ==
    PairDone =>
       LET now == AsSets([payments |-> payments, students |-> students]) IN
       /\ now = AsSets(WebhookResult(VerifyResult(run.base, PairRef), PairRef))
       /\ now = AsSets(VerifyResult(WebhookResult(run.base, PairRef), PairRef))

\* C11: a correctly signed webhook whose event type is neither charge.success
\* nor charge.failed is acknowledged with 200 and changes no Transaction and no
\* student projection.
C11_OtherEventAcknowledged ==
    [][\A i \in Slots :
          Arrives(i) =>
             \A r \in Refs, dbOk \in BOOLEAN :
                WebhookArrive(i, Event("transfer.success", r), dbOk)
                   => /\ UNCHANGED <<payments, students>>
                      /\ reqs'[i] = Idle
                      /\ resp' = Response("webhook", 200)]_vars

\* a webhook was acknowledged while every charge of the provider still has its
\* pending Payment: the event was of neither charge type
C11_Witness ==
    /\ resp = Response("webhook", 200)
    /\ \E r \in Refs : charges[r].exists
    /\ \A r \in Refs :
          charges[r].exists => \E p \in Matching(payments, r) : p.status = "pending"

\* C12: every webhook delivery whose signature check passes is answered with
\* the 200 acknowledgment, whatever its event type and metadata and whether or
\* not a store operation fails while it is handled.
C12_SignedAlwaysAcknowledged ==
    [][\A i \in Slots :
          /\ (reqs[i].kind = "webhook" /\ reqs'[i] = Idle)
                => resp' = Response("webhook", 200)
          /\ Arrives(i) =>
                \A d \in {d \in Deliveries : SignatureOk(d)}, dbOk \in BOOLEAN :
                   (WebhookArrive(i, d, dbOk) /\ reqs'[i] = Idle)
                      => resp' = Response("webhook", 200)]_vars

\* C13: in every reachable state at most one stored Transaction carries a given
\* provider reference, whatever initiations and webhook reconstructions for
\* the reference ran concurrently.
C13_ReferenceUnique ==
    \A r \in Refs : Cardinality(Matching(payments, r)) <= 1

\* initiate-payment's save was rejected as a duplicate: a webhook had already
\* reconstructed the Payment of its reference
C13_Witness ==
    /\ rev = "part_004"
    /\ resp = Response("initiate", 409)
    /\ \E p \in payments : p.status = "success"

\* C14: the payment fields of a student change only as a side effect of a
\* Transaction reaching success: every step that changes a student's fields
\* leaves a stored Transaction of that student in status success, and is taken
\* by a handler that found or created a Transaction.
C14_ProjectionOnlyOnSuccess ==
    [][\A s \in Students :
          students'[s] # students[s] =>
             /\ \E p \in payments' : p.studentId = s /\ p.status = "success"
             /\ \A i \in Slots : Steps(i) => reqs[i].id # NullId]_vars

\* C15: in every reachable state each student's paymentHistory holds no element
\* twice, and every element is the id of a stored Transaction, never null.
C15_HistoryOfStoredIds ==
    \A s \in Students :
       LET h == students[s].paymentHistory IN
       \A k \in 1..Len(h) :
          /\ Count(h, h[k]) = 1
          /\ h[k] # NullId
          /\ \E p \in payments : p.id = h[k]

\* C16: in every reachable state a Transaction whose paidAt is set has status
\* success; pending and failed Transactions have no paidAt.
C16_PaidAtOnlyOnSuccess ==
    \A p \in payments : p.paidAt # NoPaidAt => p.status = "success"

\* C17: an initiate-payment that answers 200 has stored exactly one new
\* Transaction, pending and without paidAt, with the reference the provider
\* issued, the requesting student's id and the requested semester and
\* academicYear; the answer carries that reference and the new Transaction's
\* id; no step of initiate-payment changes a student projection.
C17_InitiatePersistsPending ==
    [][\A i \in Slots :
          /\ (Arrives(i) /\ reqs'[i].kind = "initiate")
                => UNCHANGED <<payments, students>>
          /\ (reqs[i].kind = "initiate" /\ Steps(i))
                => /\ students' = students
                   /\ IF reqs'[i] = Idle /\ resp'.status = 200
                        THEN \E p \in payments' \ payments :
                                /\ payments' = payments \cup {p}
                                /\ p.status = "pending" /\ p.paidAt = NoPaidAt
                                /\ p.paystackReference = reqs[i].ref
                                /\ charges[reqs[i].ref].exists
                                /\ p.studentId = reqs[i].body.studentId
                                /\ p.semester = reqs[i].body.term.semester
                                /\ p.academicYear = reqs[i].body.term.academicYear
                                /\ resp' = Answer("initiate", 200, reqs[i].ref, p.id)
                        ELSE payments' = payments]_vars

C17_Witness ==
    /\ resp.kind = "initiate" /\ resp.status = 200
    /\ \E p \in payments :
          /\ p.id = resp.paymentId /\ p.paystackReference = resp.reference
          /\ p.status = "pending" /\ p.semester = "Spring"

\* C18: initiate-payment answers 400 for missing or non-positive fields, 404
\* for an unknown student and 502 when the gateway is unavailable; none of
\* these outcomes stores a Transaction, and for 400 and 404 the gateway is not
\* called.
C18_InitiateErrors ==
    [][\A i \in Slots :
          /\ Arrives(i) =>
                \A complete \in BOOLEAN, amount \in Amounts, q \in Requests :
                   InitiateArrive(i, TRUE, complete, amount, q.studentId, q.term, TRUE)
                      => IF ~complete \/ amount <= 0
                           THEN /\ resp' = Response("initiate", 400)
                                /\ reqs'[i] = Idle
                                /\ UNCHANGED <<payments, charges>>
                         ELSE IF q.studentId \notin Students
                           THEN /\ resp' = Response("initiate", 404)
                                /\ reqs'[i] = Idle
                                /\ UNCHANGED <<payments, charges>>
                         ELSE TRUE
          /\ InitiateGateway(i, FALSE)
                => /\ resp' = Response("initiate", 502)
                   /\ UNCHANGED payments]_vars

\* C19: when initiate-payment's save meets a stored Transaction with the same
\* provider reference, the answer is 409 and the stored Transaction stays as
\* it is.
C19_DuplicateReference409 ==
    [][\A i \in Slots :
          (/\ reqs[i].kind = "initiate" /\ reqs[i].pc = "save"
           /\ DuplicateKey(payments, reqs[i].ref)
           /\ InitiateSave(i, TRUE))
             => /\ resp' = Response("initiate", 409)
                /\ payments' = payments]_vars

\* C20: a verify-payment call for a reference that has no stored Transaction
\* is answered 404, also when the provider reports the charge as success, and
\* changes no Transaction and no student projection.
C20_VerifyUnknown404 ==
    [][\A i \in Slots :
          /\ Arrives(i) =>
                \A r \in Refs, g \in GatewayAnswers \ {"unavailable"} :
                   (/\ Matching(payments, r) = {}
                    /\ VerifyArrive(i, TRUE, r, g)
                    /\ reqs'[i] = Idle)
                      => resp' = Response("verify", 404)
          /\ (/\ reqs[i].kind = "verify" /\ reqs[i].pc = "update"
              /\ Matching(payments, reqs[i].ref) = {}
              /\ VerifyUpdate(i, TRUE))
                => /\ reqs'[i] = Idle
                   /\ resp' = Response("verify", 404)
                   /\ UNCHANGED <<payments, students>>
          /\ (/\ reqs[i].kind = "verify" /\ reqs[i].pc = "student"
              /\ reqs[i].id = NullId
              /\ \E dbOk \in BOOLEAN : VerifyStudent(i, dbOk))
                => /\ resp' = Response("verify", 404)
                   /\ UNCHANGED <<payments, students>>]_vars

\* C21: when the student update fails after the Transaction was written as
\* success, the Transaction is not rolled back (the Payment collection stays as
\* it is, the Transaction success with its paidAt) and the failure is reported
\* with an error answer.
C21_NoRollback ==
    [][\A i \in Slots :
          (/\ reqs[i].pc = "student" /\ reqs[i].id # NullId
           /\ \/ WebhookStudent(i, FALSE)
              \/ VerifyStudent(i, FALSE))
             => /\ payments' = payments
                /\ resp' = Response(reqs[i].kind, 500)]_vars

\* a trigger stored success, its student update failed and it answered 500
C21_Witness ==
    /\ resp.status = 500 /\ resp.kind \in {"webhook", "verify"}
    /\ \A i \in Slots : reqs[i] = Idle
    /\ \E p \in payments :
          /\ p.status = "success" /\ p.paidAt = PaidAtOf(p.paystackReference)
          /\ p.studentId \in Students
          /\ students[p.studentId] = NewStudent

\* the signature header is the shared-secret HMAC of exactly the bytes received
Authentic(d) == d.signature = Hmac(Secret, d.raw)

\* the signature header is the shared-secret HMAC of other bytes than those received
Tampered(d) == d.signature[1] = Secret /\ d.signature[2] # d.raw

\* C22: the signature check passes every delivery whose bytes are the ones the
\* provider signed with the shared secret, and rejects (400) every delivery
\* whose bytes were altered under the unchanged signature header: the hash is
\* taken over the exact bytes received.
C22_RawBytesHmac ==
    [][(~wire.handled /\ wire'.handled)
          => /\ Authentic(wire.d) => resp' # Response("webhook", 400)
             /\ Tampered(wire.d) => resp' = Response("webhook", 400)]_vars

\* C23: every stored Transaction has a positive amount of kobo, whether
\* initiate-payment stored it from a request amount its validation accepted or
\* the webhook reconstructed it.
C23_AmountPositive ==
    \A p \in payments : p.amount >= 1

\* both integrations have handled their delivery
StripeDone ==
    /\ run.started = {"webhook", "stripe"}
    /\ \A i \in Slots : reqs[i] = Idle

\* the payment fields of a student, the history by its length
Projection(s) ==
    [currentSemesterPaymentStatus |-> s.currentSemesterPaymentStatus,
     lastPaidSemester |-> s.lastPaidSemester,
     lastPaidAcademicYear |-> s.lastPaidAcademicYear,
     entries |-> Len(s.paymentHistory)]

\* C24: for corresponding signed events on corresponding stores (the record of
\* the payment stored on both sides, or on neither), the Stripe webhook
\* handlers and the Paystack webhook handler leave the Transaction in the same
\* status (a missing record reconstructed by both or by neither) and the same
\* projection of the paying student.
C24_SameStateMachine ==
    (StripeDone /\ run.base.webhook = run.base.stripe) =>
       /\ {p.status : p \in Matching(payments, PairRef)}
            = {Reconciled(p.status) :
                  p \in StripeMatching(stripe.payments, PaymentIntentId(PairRef))}
       /\ Projection(students[1]) = Projection(students[2])

\* C25: when a charge.success webhook has reconstructed the success
\* Transaction of a reference before initiate-payment saves its pending record,
\* initiate-payment's save fails as a duplicate: it answers with an error and
\* the Payment collection stays as it is, the success record neither replaced
\* nor accompanied by a pending one.
C25_InitiateLosesRace ==
    [][\A i \in Slots :
          (/\ reqs[i].kind = "initiate" /\ reqs[i].pc = "save"
           /\ \E dbOk \in BOOLEAN : InitiateSave(i, dbOk)
           /\ \E p \in Matching(payments, reqs[i].ref) : p.status = "success")
             => /\ payments' = payments
                /\ resp'.kind = "initiate" /\ resp'.status \in {409, 500}]_vars

\* the duplicate was refused and the reconstructed record is the only one
C25_Witness ==
    /\ resp.kind = "initiate" /\ resp.status = 409
    /\ \E r \in Refs :
          /\ Cardinality(Matching(payments, r)) = 1
          /\ \A p \in Matching(payments, r) :
                /\ p.status = "success" /\ p.paidAt = PaidAtOf(r)
                /\ firstStatus[r] = "success"

\* C26: when the provider redelivers a correctly signed charge.success event
\* with complete metadata until it is answered 200 and the store eventually
\* works, then eventually the Transaction of the reference is success, its
\* owner's projection is paid with the Transaction's id in paymentHistory, and
\* the provider has its 200.
C26_EventuallyReconciled ==
    <>(/\ wire.handled
       /\ \E p \in Matching(payments, PairRef) :
             /\ p.status = "success"
             /\ students[p.studentId].currentSemesterPaymentStatus = "paid"
             /\ Count(students[p.studentId].paymentHistory, p.id) = 1)

\* C27: in every reachable state every element of a student's paymentHistory
\* is the id of a stored Transaction of that student whose status is success.
C27_HistoryRefersToSuccess ==
    \A s \in Students :
       \A k \in 1..Len(students[s].paymentHistory) :
          \E p \in payments :
             /\ p.id = students[s].paymentHistory[k]
             /\ p.status = "success"
             /\ p.studentId = s

\* C28: in every reachable state a student whose currentSemesterPaymentStatus
\* is paid has a stored Transaction of status success whose semester and
\* academicYear are the student's lastPaidSemester and lastPaidAcademicYear.
C28_PaidHasSuccessTransaction ==
    \A s \in Students :
       students[s].currentSemesterPaymentStatus = "paid" =>
          \E p \in payments :
             /\ p.studentId = s /\ p.status = "success"
             /\ p.semester = students[s].lastPaidSemester
             /\ p.academicYear = students[s].lastPaidAcademicYear

\* the students that own a stored Transaction of r, before or after the step
Owners(r) ==
    {p.studentId : p \in Matching(payments, r) \cup Matching(payments', r)}

\* the step leaves alone every Transaction of another reference than r and
\* every student but the owner of r's Transaction
Framed(r) ==
    /\ \A p \in payments : p.paystackReference # r => p \in payments'
    /\ \A p \in payments' \ payments : p.paystackReference = r
    /\ \A s \in Students : students'[s] # students[s] => s \in Owners(r)

\* C29: every step of a trigger for reference r (initiate-payment,
\* verify-payment or webhook) leaves the Transactions of every other reference
\* and the projection of every student but the owner of r's Transaction
\* unchanged: a webhook delivery is framed by the reference in its body, a
\* verify-payment call by the reference in its path, a later step of either by
\* the reference its handler holds, initiate-payment by the reference the
\* gateway issues to it (before that it changes nothing at all).
C29_OtherRecordsUntouched ==
    [][\A i \in Slots :
          /\ \A d \in Deliveries, dbOk \in BOOLEAN :
                WebhookArrive(i, d, dbOk) => Framed(RefOf(d))
          /\ \A dbOk \in BOOLEAN :
                (WebhookCreate(i, dbOk) \/ WebhookStudent(i, dbOk))
                   => Framed(reqs[i].ref)
          /\ \A authorized \in BOOLEAN, ref \in Refs, g \in GatewayAnswers :
                VerifyArrive(i, authorized, ref, g) => Framed(ref)
          /\ \A dbOk \in BOOLEAN :
                (VerifyUpdate(i, dbOk) \/ VerifyStudent(i, dbOk))
                   => Framed(reqs[i].ref)
          /\ \A authorized \in BOOLEAN, complete \in BOOLEAN, amount \in Amounts,
                q \in Requests, dbOk \in BOOLEAN :
                InitiateArrive(i, authorized, complete, amount, q.studentId, q.term, dbOk)
                   => payments' = payments /\ students' = students
          /\ \A gatewayOk \in BOOLEAN :
                InitiateGateway(i, gatewayOk)
                   => payments' = payments /\ students' = students
          /\ \A dbOk \in BOOLEAN :
                InitiateSave(i, dbOk) => Framed(reqs[i].ref)]_vars

====
